---- MODULE Spec2Model ----
(***************************************************************************)
(* A model of sysfp (src/src/lib.rs): per-call control of the x86-64 SSE   *)
(* control/status register (MXCSR).  Flags and Status are u32 bit patterns; *)
(* host_op! is the three-instruction sequence ldmxcsr / <one scalar         *)
(* instruction> / stmxcsr run on the calling thread's own MXCSR.            *)
(***************************************************************************)
EXTENDS Integers, Sequences, FiniteSets, TLC

(***************************************************************************)
(* core::arch::x86_64 constants named by the source.                       *)
(***************************************************************************)
MM_ROUND_NEAREST == 0
MM_ROUND_DOWN == 8192
MM_ROUND_UP == 16384
MM_ROUND_TOWARD_ZERO == 24576
MM_ROUND_MASK == 24576
MM_FLUSH_ZERO_MASK == 32768
MM_FLUSH_ZERO_ON == 32768
MM_FLUSH_ZERO_OFF == 0
MM_MASK_MASK == 8064
MM_EXCEPT_DENORM == 2
MM_EXCEPT_DIV_ZERO == 4
MM_EXCEPT_OVERFLOW == 8
MM_EXCEPT_UNDERFLOW == 16
MM_EXCEPT_INEXACT == 32
MM_EXCEPT_MASK == 63
\* The one bit of _MM_EXCEPT_MASK that no Status constant names: the
\* invalid-operation flag (bit 0 of MXCSR).
MM_EXCEPT_INVALID ==
    MM_EXCEPT_MASK - (MM_EXCEPT_DENORM + MM_EXCEPT_DIV_ZERO + MM_EXCEPT_OVERFLOW
                      + MM_EXCEPT_UNDERFLOW + MM_EXCEPT_INEXACT)

(***************************************************************************)
(* u32 bit operations.  Every word of the model is below 2^16, so `a & !m` *)
(* (the only use of ! in the source) is a with the bits of m cleared.       *)
(***************************************************************************)
RECURSIVE BitAnd(_, _)
BitAnd(a, b) ==
    IF a = 0 \/ b = 0 THEN 0
    ELSE (a % 2) * (b % 2) + 2 * BitAnd(a \div 2, b \div 2)

RECURSIVE BitOr(_, _)
BitOr(a, b) ==
    IF a = 0 THEN b
    ELSE IF b = 0 THEN a
    ELSE (IF a % 2 = 1 \/ b % 2 = 1 THEN 1 ELSE 0) + 2 * BitOr(a \div 2, b \div 2)

BitAndNot(a, m) == a - BitAnd(a, m)

RECURSIVE Pow2(_)
Pow2(n) == IF n = 0 THEN 1 ELSE 2 * Pow2(n - 1)

(***************************************************************************)
(* Rounding (lib.rs 7-17) and its `as u32` cast.                           *)
(***************************************************************************)
Rounding == {"Zero", "Up", "Down", "Nearest"}

RoundingAsU32(r) ==
    CASE r = "Zero" -> MM_ROUND_TOWARD_ZERO
      [] r = "Up" -> MM_ROUND_UP
      [] r = "Down" -> MM_ROUND_DOWN
      [] r = "Nearest" -> MM_ROUND_NEAREST

(***************************************************************************)
(* Flags (lib.rs 19-81): a value is its `inner` word.                      *)
(***************************************************************************)
\* The exception masks left clear.
Flags_new_zeroed == BitAndNot(MM_MASK_MASK, MM_MASK_MASK)

Flags_new == MM_MASK_MASK

Flags_default == Flags_new

Flags_set_rounding_nomask(inner, r) == BitOr(inner, RoundingAsU32(r))

Flags_set_rounding(inner, r) ==
    BitOr(BitAndNot(inner, MM_ROUND_MASK), RoundingAsU32(r))

Flags_with_rounding(inner, r) == Flags_set_rounding(inner, r)

Flags_rounding(inner) ==
    LET b == BitAnd(inner, MM_ROUND_MASK)
    IN  IF b = RoundingAsU32("Zero") THEN "Zero"
        ELSE IF b = RoundingAsU32("Up") THEN "Up"
        ELSE IF b = RoundingAsU32("Down") THEN "Down"
        ELSE "Nearest"

Flags_set_ftz_noclear(inner, enabled) ==
    BitOr(inner, IF enabled THEN MM_FLUSH_ZERO_ON ELSE MM_FLUSH_ZERO_OFF)

Flags_set_ftz(inner, enabled) ==
    BitOr(BitAndNot(inner, MM_FLUSH_ZERO_MASK),
          IF enabled THEN MM_FLUSH_ZERO_ON ELSE MM_FLUSH_ZERO_OFF)

Flags_with_ftz(inner, enabled) == Flags_set_ftz(inner, enabled)

Flags_ftz(inner) == BitAnd(inner, MM_FLUSH_ZERO_MASK) # 0

(***************************************************************************)
(* Status (lib.rs 83-159): a value is its `inner` word.                    *)
(***************************************************************************)
Status_OVERFLOW == MM_EXCEPT_OVERFLOW
Status_UNDERFLOW == MM_EXCEPT_UNDERFLOW
Status_INEXACT == MM_EXCEPT_INEXACT
Status_DENORM == MM_EXCEPT_DENORM
Status_DIV_ZERO == MM_EXCEPT_DIV_ZERO

StatusConstants ==
    {Status_OVERFLOW, Status_UNDERFLOW, Status_INEXACT, Status_DENORM, Status_DIV_ZERO}

Status_empty == 0

Status_has_exceptions(s) == BitAnd(s, MM_EXCEPT_MASK) # 0

Status_has(s, status) == BitAnd(s, status) = status

Status_overflow(s) == Status_has(s, Status_OVERFLOW)
Status_underflow(s) == Status_has(s, Status_UNDERFLOW)
Status_inexact(s) == Status_has(s, Status_INEXACT)
Status_denorm(s) == Status_has(s, Status_DENORM)
Status_div_zero(s) == Status_has(s, Status_DIV_ZERO)

Status_or_as_and(s, other) == BitAnd(s, other)

Status_or(s, other) == BitOr(s, other)

Status_and(s, other) == BitAnd(s, other)

(***************************************************************************)
(* The scalar instructions' operands.  A binary floating-point format with *)
(* the structure of binary64 (signed zeros, subnormals, infinities, quiet   *)
(* NaNs) and a significand of FmtP bits over FmtJ + 1 binades of normal     *)
(* numbers, so that exact results are small integers.  A finite magnitude   *)
(* is counted in units of the smallest subnormal.                           *)
(***************************************************************************)
FmtP == 3
FmtJ == 3

MinSub == Pow2(0)
MinNormal == Pow2(FmtP - 1)
One == Pow2(FmtP)
MaxMag == (Pow2(FmtP) - 1) * Pow2(FmtJ)
\* The first magnitude past the largest finite one, at unbounded exponent.
Top == Pow2(FmtP + FmtJ)

Representable(m) ==
    \/ m < Pow2(FmtP)
    \/ \E j \in 1..(FmtJ + 1) :
          /\ m % Pow2(j) = 0
          /\ (m \div Pow2(j)) \in Pow2(FmtP - 1)..(Pow2(FmtP) - 1)

RepExt == {m \in 0..Top : Representable(m)}

Fin(sign, mag) == [cls |-> "fin", sign |-> sign, mag |-> mag]
Inf(sign) == [cls |-> "inf", sign |-> sign, mag |-> 0]
QNaN(sign) == [cls |-> "nan", sign |-> sign, mag |-> 0]
\* The "real indefinite" QNaN a masked invalid operation returns.
DefaultNaN == QNaN(1)

IsNaN(v) == v.cls = "nan"
IsInf(v) == v.cls = "inf"
IsZero(v) == v.cls = "fin" /\ v.mag = 0
IsSubnormal(v) == v.cls = "fin" /\ v.mag > 0 /\ v.mag < MinNormal
Neg(v) == [v EXCEPT !.sign = 1 - v.sign]
Signed(v) == IF v.sign = 1 THEN 0 - v.mag ELSE v.mag
Abs(i) == IF i < 0 THEN 0 - i ELSE i
Xor(a, b) == IF a = b THEN 0 ELSE 1

\* MXCSR.RC and the result's sign give the direction of rounding.
Direction(rc, sign) ==
    CASE rc = "Nearest" -> "nearest"
      [] rc = "Zero" -> "trunc"
      [] rc = "Up" -> IF sign = 0 THEN "away" ELSE "trunc"
      [] rc = "Down" -> IF sign = 1 THEN "away" ELSE "trunc"

\* n/d (units, 0 < n < Top * d) rounded to a magnitude of RepExt.
RoundMag(n, d, dir) ==
    LET lo == CHOOSE r \in RepExt :
                  /\ r * d <= n
                  /\ \A q \in RepExt : q * d <= n => q <= r
        hi == CHOOSE r \in RepExt :
                  /\ r * d >= n
                  /\ \A q \in RepExt : q * d >= n => q >= r
    IN  IF lo = hi THEN lo
        ELSE CASE dir = "trunc" -> lo
               [] dir = "away" -> hi
               [] dir = "nearest" ->
                    IF 2 * n < (lo + hi) * d THEN lo
                    ELSE IF 2 * n > (lo + hi) * d THEN hi
                    ELSE IF (lo \div (hi - lo)) % 2 = 0 THEN lo ELSE hi

\* Tininess is detected after rounding (at unbounded exponent range).
Tiny(n, d, dir) ==
    /\ n < MinNormal * d
    /\ CASE dir = "trunc" -> TRUE
         [] dir = "away" -> ~(2 * n > (2 * MinNormal - 1) * d)
         [] dir = "nearest" -> ~(4 * n >= (4 * MinNormal - 1) * d)

Overflowed(sign, dir) ==
    [val |-> IF dir = "trunc" THEN Fin(sign, MaxMag) ELSE Inf(sign),
     sig |-> MM_EXCEPT_OVERFLOW + MM_EXCEPT_INEXACT]

\* The result and the exceptions signaled for the exact nonzero value
\* (-1)^sign * n/d, with every exception masked.
Deliver(sign, n, d, rc, ftz) ==
    LET dir == Direction(rc, sign)
    IN  IF n >= Top * d THEN Overflowed(sign, dir)
        ELSE LET r == RoundMag(n, d, dir)
             IN  IF r = Top THEN Overflowed(sign, dir)
                 ELSE IF Tiny(n, d, dir) /\ ftz
                 THEN [val |-> Fin(sign, 0),
                       sig |-> MM_EXCEPT_UNDERFLOW + MM_EXCEPT_INEXACT]
                 ELSE [val |-> Fin(sign, r),
                       sig |-> IF r * d = n THEN 0
                               ELSE IF Tiny(n, d, dir)
                               THEN MM_EXCEPT_UNDERFLOW + MM_EXCEPT_INEXACT
                               ELSE MM_EXCEPT_INEXACT]

Denormal(vs) == IF \E v \in vs : IsSubnormal(v) THEN MM_EXCEPT_DENORM ELSE 0
WithSig(res, extra) == [res EXCEPT !.sig = BitOr(res.sig, extra)]
Exact(v, sig) == [val |-> v, sig |-> sig]
Invalid == [val |-> DefaultNaN, sig |-> MM_EXCEPT_INVALID]

\* The sign of an exact zero sum of two terms of signs sa and sb.
ZeroSumSign(bothZeroSame, sa, rc) ==
    IF bothZeroSame THEN sa ELSE IF rc = "Down" THEN 1 ELSE 0

addsd(l, r, rc, ftz) ==
    IF IsNaN(l) THEN Exact(l, 0)
    ELSE IF IsNaN(r) THEN Exact(r, 0)
    ELSE IF IsInf(l) /\ IsInf(r)
    THEN IF l.sign = r.sign THEN Exact(l, 0) ELSE Invalid
    ELSE IF IsInf(l) THEN Exact(l, Denormal({r}))
    ELSE IF IsInf(r) THEN Exact(r, Denormal({l}))
    ELSE LET s == Signed(l) + Signed(r)
         IN  IF s = 0
             THEN Exact(Fin(ZeroSumSign(l.sign = r.sign, l.sign, rc), 0),
                        Denormal({l, r}))
             ELSE WithSig(Deliver(IF s < 0 THEN 1 ELSE 0, Abs(s), 1, rc, ftz),
                          Denormal({l, r}))

subsd(l, r, rc, ftz) ==
    IF IsNaN(l) THEN Exact(l, 0)
    ELSE IF IsNaN(r) THEN Exact(r, 0)
    ELSE addsd(l, Neg(r), rc, ftz)

mulsd(l, r, rc, ftz) ==
    LET sign == Xor(l.sign, r.sign)
    IN  IF IsNaN(l) THEN Exact(l, 0)
        ELSE IF IsNaN(r) THEN Exact(r, 0)
        ELSE IF (IsInf(l) /\ IsZero(r)) \/ (IsZero(l) /\ IsInf(r)) THEN Invalid
        ELSE IF IsInf(l) \/ IsInf(r) THEN Exact(Inf(sign), Denormal({l, r}))
        ELSE IF l.mag * r.mag = 0 THEN Exact(Fin(sign, 0), Denormal({l, r}))
        ELSE WithSig(Deliver(sign, l.mag * r.mag, One, rc, ftz), Denormal({l, r}))

divsd(l, r, rc, ftz) ==
    LET sign == Xor(l.sign, r.sign)
    IN  IF IsNaN(l) THEN Exact(l, 0)
        ELSE IF IsNaN(r) THEN Exact(r, 0)
        ELSE IF (IsInf(l) /\ IsInf(r)) \/ (IsZero(l) /\ IsZero(r)) THEN Invalid
        ELSE IF IsInf(l) THEN Exact(Inf(sign), Denormal({r}))
        ELSE IF IsInf(r) THEN Exact(Fin(sign, 0), Denormal({l}))
        ELSE IF IsZero(r) THEN Exact(Inf(sign), MM_EXCEPT_DIV_ZERO)
        ELSE IF IsZero(l) THEN Exact(Fin(sign, 0), Denormal({r}))
        ELSE WithSig(Deliver(sign, l.mag * One, r.mag, rc, ftz), Denormal({l, r}))

\* vfmadd213sd a, b, c: a := b * a + c, rounded once.
vfmadd213sd(a, b, c, rc, ftz) ==
    LET psign == Xor(a.sign, b.sign)
    IN  IF IsNaN(a) THEN Exact(a, 0)
        ELSE IF IsNaN(b) THEN Exact(b, 0)
        ELSE IF IsNaN(c) THEN Exact(c, 0)
        ELSE IF (IsInf(a) /\ IsZero(b)) \/ (IsZero(a) /\ IsInf(b)) THEN Invalid
        ELSE IF IsInf(a) \/ IsInf(b)
        THEN IF IsInf(c) /\ c.sign # psign THEN Invalid
             ELSE Exact(Inf(psign), Denormal({a, b, c}))
        ELSE IF IsInf(c) THEN Exact(c, Denormal({a, b}))
        ELSE LET p == a.mag * b.mag
                 s == (IF psign = 1 THEN 0 - p ELSE p) + Signed(c) * One
             IN  IF s = 0
                 THEN Exact(Fin(ZeroSumSign(p = 0 /\ c.mag = 0 /\ psign = c.sign,
                                            psign, rc), 0),
                            Denormal({a, b, c}))
                 ELSE WithSig(Deliver(IF s < 0 THEN 1 ELSE 0, Abs(s), One, rc, ftz),
                              Denormal({a, b, c}))

(***************************************************************************)
(* cvtsd2ss at its real widths.  A binary64 pattern is four 16-bit limbs,  *)
(* least significant first; a binary32 pattern is two.                      *)
(***************************************************************************)
LimbBase == Pow2(16)
F32InfBits == 255 * Pow2(23)

F32Limbs(sign, mag31) ==
    <<mag31 % LimbBase, (mag31 \div LimbBase) + sign * (LimbBase \div 2)>>

\* Whether a magnitude is rounded up, from how the discarded part compares
\* with half a unit in the last place.
RoundsUp(dir, cmp, odd) ==
    CASE dir = "trunc" -> FALSE
      [] dir = "away" -> cmp # "zero"
      [] dir = "nearest" -> cmp = "above" \/ (cmp = "half" /\ odd)

cvtsd2ss(x, rc, ftz) ==
    LET sign == x[4] \div 32768
        exp == (x[4] % 32768) \div 16
        \* the 52-bit fraction: its leading 23 bits and the 29 below them
        m23 == (x[4] % 16) * Pow2(19) + x[3] * 8 + (x[2] \div 8192)
        r29 == (x[2] % 8192) * LimbBase + x[1]
        dir == Direction(rc, sign)
        cmp == IF r29 = 0 THEN "zero"
               ELSE IF r29 < Pow2(28) THEN "below"
               ELSE IF r29 = Pow2(28) THEN "half" ELSE "above"
        inc == IF RoundsUp(dir, cmp, m23 % 2 = 1) THEN 1 ELSE 0
        e == exp - 896
        UP == MM_EXCEPT_UNDERFLOW + MM_EXCEPT_INEXACT
        out(mag31, sig) == [lo32 |-> F32Limbs(sign, mag31), sig |-> sig]
    IN  IF exp = 2047
        THEN IF m23 = 0 /\ r29 = 0 THEN out(F32InfBits, 0)
             ELSE IF m23 >= Pow2(22) THEN out(F32InfBits + m23, 0)
             ELSE out(F32InfBits + Pow2(22) + m23, MM_EXCEPT_INVALID)
        ELSE IF exp = 0
        THEN IF m23 = 0 /\ r29 = 0 THEN out(0, 0)
             ELSE out(IF ~ftz /\ dir = "away" THEN 1 ELSE 0, MM_EXCEPT_DENORM + UP)
        ELSE IF e >= 255
        THEN out(IF dir = "trunc" THEN F32InfBits - 1 ELSE F32InfBits,
                 MM_EXCEPT_OVERFLOW + MM_EXCEPT_INEXACT)
        ELSE IF e >= 1
        THEN LET bits == e * Pow2(23) + m23 + inc
             IN  IF bits >= F32InfBits
                 THEN out(IF dir = "trunc" THEN F32InfBits - 1 ELSE F32InfBits,
                          MM_EXCEPT_OVERFLOW + MM_EXCEPT_INEXACT)
                 ELSE out(bits, IF cmp = "zero" THEN 0 ELSE MM_EXCEPT_INEXACT)
        ELSE IF e = 0 /\ m23 + inc = Pow2(23)
        THEN out(Pow2(23), MM_EXCEPT_INEXACT)
        ELSE IF ftz THEN out(0, UP)
        ELSE LET sh == 1 - e
                 s24 == Pow2(23) + m23
                 q == IF sh >= 25 THEN 0 ELSE s24 \div Pow2(sh)
                 rem == IF sh >= 25 THEN s24 ELSE s24 % Pow2(sh)
                 cmp2 == IF sh >= 25 THEN "below"
                         ELSE IF rem = 0 /\ r29 = 0 THEN "zero"
                         ELSE IF rem < Pow2(sh - 1) THEN "below"
                         ELSE IF rem = Pow2(sh - 1) /\ r29 = 0 THEN "half"
                         ELSE "above"
                 inc2 == IF RoundsUp(dir, cmp2, q % 2 = 1) THEN 1 ELSE 0
             IN  out(q + inc2, IF cmp2 = "zero" THEN 0 ELSE UP)

\* `bits as u32` of a 64-bit pattern: the low 32 bits.
AsU32High(bits64) == <<bits64[3], bits64[4]>>

AsU32(bits64) == <<bits64[1], bits64[2]>>

(***************************************************************************)
(* MXCSR as the three instructions of host_op! see it.                     *)
(***************************************************************************)
MxcsrRC(reg) ==
    LET b == BitAnd(reg, MM_ROUND_MASK)
    IN  IF b = MM_ROUND_TOWARD_ZERO THEN "Zero"
        ELSE IF b = MM_ROUND_UP THEN "Up"
        ELSE IF b = MM_ROUND_DOWN THEN "Down"
        ELSE "Nearest"

MxcsrFZ(reg) == BitAnd(reg, MM_FLUSH_ZERO_MASK) # 0

\* The control bits of a word: everything but the six sticky flags.
ControlBits(reg) == BitAndNot(reg, MM_EXCEPT_MASK)

\* An exception's mask bit sits seven places above its flag bit.
Unmasked(reg, sig) ==
    \E e \in {MM_EXCEPT_INVALID, MM_EXCEPT_DENORM, MM_EXCEPT_DIV_ZERO,
              MM_EXCEPT_OVERFLOW, MM_EXCEPT_UNDERFLOW, MM_EXCEPT_INEXACT} :
        BitAnd(sig, e) # 0 /\ BitAnd(reg, e * 128) = 0

ldmxcsr_keep_sticky(reg, word) == BitOr(word, BitAnd(reg, MM_EXCEPT_MASK))

ldmxcsr_skipped(reg, word) == reg

\* "ldmxcsr [{flags:r}]": the whole register is replaced by the word.
ldmxcsr(reg, word) == word

\* "stmxcsr [{status:r}]": the whole register is stored.
stmxcsr(reg) == reg

Ops == {"add", "sub", "mul", "div", "madd", "to_single"}

\* The one instruction of each f64 function ($asm of host_op!), run on its
\* operand registers under the register's rounding and flush-to-zero bits:
\* the inout register afterwards and the exceptions signaled.
Execute(op, args, reg) ==
    LET rc == MxcsrRC(reg)
        fz == MxcsrFZ(reg)
    IN  CASE op = "add" ->
               LET r == addsd(args[1], args[2], rc, fz)
               IN  [xmm |-> r.val, sig |-> r.sig]
          [] op = "sub" ->
               LET r == subsd(args[1], args[2], rc, fz)
               IN  [xmm |-> r.val, sig |-> r.sig]
          [] op = "mul" ->
               LET r == mulsd(args[1], args[2], rc, fz)
               IN  [xmm |-> r.val, sig |-> r.sig]
          [] op = "div" ->
               LET r == divsd(args[1], args[2], rc, fz)
               IN  [xmm |-> r.val, sig |-> r.sig]
          [] op = "madd" ->
               LET r == vfmadd213sd(args[1], args[2], args[3], rc, fz)
               IN  [xmm |-> r.val, sig |-> r.sig]
          [] op = "to_single" ->
               \* cvtsd2ss {fp}, {fp}: bits 32..63 of the register are kept
               LET r == cvtsd2ss(args[1], rc, fz)
               IN  [xmm |-> <<r.lo32[1], r.lo32[2], args[1][3], args[1][4]>>,
                    sig |-> r.sig]

\* What the function returns beside the Status, from its inout register.
Returned(op, xmm) == IF op = "to_single" THEN AsU32(xmm) ELSE xmm

\* host_op! run without interruption on a register holding `reg`.
HostOp(reg, f, op, args) ==
    LET loaded == ldmxcsr(reg, f)
        x == Execute(op, args, loaded)
        after == BitOr(loaded, x.sig)
    IN  [reg |-> after, status |-> stmxcsr(after), res |-> Returned(op, x.xmm),
         sig |-> x.sig]

(***************************************************************************)
(* State.                                                                   *)
(***************************************************************************)
Threads == {1, 2}

RegShared(t) == 1

\* The MXCSR a thread's instructions address: its own.
RegOf(t) == t

VARIABLES
    mxcsr,   \* mxcsr[r]: the control/status register r
    flags,   \* flags[t]: the Flags value thread t's caller holds (its inner)
    pc,      \* pc[t]: "off", "idle", "fault", or the instruction to run next
    call,    \* call[t]: the call in flight: op, flags (by value), operands, xmm
    ret,     \* ret[t]: what the last call returned, with the call it answers
    sa, sb,  \* two Status values in the caller's hands
    sop, sr, \* the Status operation last applied to (sa, sb), and its result
    fop      \* the Flags operation last applied: thread, name, argument, and
             \* the value it was applied to (kept only where it is asked for)

vars == <<mxcsr, flags, pc, call, ret, sa, sb, sop, sr, fop>>

NoCall == [op |-> "none"]
NoRet == [op |-> "none"]
NoFop == [op |-> "none"]

(***************************************************************************)
(* Inputs.                                                                  *)
(***************************************************************************)
Zero == Fin(0, 0)
Three == Fin(0, 3 * One)
PInf == Inf(0)

\* Operand pairs of add, sub, mul and div: exact, inexact, overflowing,
\* underflowing, subnormal, and invalid cases among them.
Args2 ==
    {<<Fin(0, One), Three>>, <<Fin(0, MaxMag), Fin(1, MaxMag)>>,
     <<Fin(0, MinSub), Fin(0, MinSub)>>, <<Fin(0, MinNormal), Fin(0, MinSub)>>,
     <<Fin(0, One), Zero>>, <<Zero, Zero>>, <<PInf, PInf>>}

Args3 ==
    {<<Three, Three, Fin(1, One)>>, <<Fin(0, MinSub), Three, Fin(0, MinSub)>>,
     <<PInf, Zero, Fin(0, One)>>}

\* binary64 patterns for to_single: 1.0, 0.1, 1e39, 1e-40, -2^-1074, a NaN.
Args1 ==
    {<<<<0, 0, 0, 16368>>>>, <<<<39322, 39321, 39321, 16313>>>>,
     <<<<18973, 62620, 33415, 18439>>>>, <<<<22428, 10103, 27686, 14241>>>>,
     <<<<1, 0, 0, 32768>>>>, <<<<0, 0, 1, 32752>>>>}

ArgsOf(op) ==
    IF op = "to_single" THEN Args1 ELSE IF op = "madd" THEN Args3 ELSE Args2

Calls == {[op |-> op, args |-> a] : op \in Ops, a \in Args1 \cup Args2 \cup Args3}
AllCalls == {c \in Calls : c.args \in ArgsOf(c.op)}

\* Register contents a thread may start with: the power-on default, the
\* default with every flag sticky, everything unmasked, every bit set.
InitMxcsr == {MM_MASK_MASK, MM_MASK_MASK + MM_EXCEPT_MASK, 0, 65535}

\* Flags that ambient computation between two calls may leave sticky.
AmbientFlags == {MM_EXCEPT_OVERFLOW + MM_EXCEPT_INVALID}

(***************************************************************************)
(* Initial states.                                                          *)
(***************************************************************************)
InitCommon ==
    /\ flags = [t \in Threads |-> Flags_new]
    /\ call = [t \in Threads |-> NoCall]
    /\ ret = [t \in Threads |-> NoRet]
    /\ sop = "none"
    /\ sr = Status_empty
    /\ fop = NoFop

\* One thread, its register holding anything.
Init ==
    /\ InitCommon
    /\ \E w \in InitMxcsr :
          mxcsr = [r \in Threads |-> IF r = 1 THEN w ELSE MM_MASK_MASK]
    /\ pc = [t \in Threads |-> IF t = 1 THEN "idle" ELSE "off"]
    /\ sa = Status_empty
    /\ sb = Status_empty

(***************************************************************************)
(* Flags operations of a thread's caller.                                   *)
(***************************************************************************)
FlagsNew(t) ==
    /\ pc[t] = "idle"
    /\ \/ flags' = [flags EXCEPT ![t] = Flags_new]
       \/ flags' = [flags EXCEPT ![t] = Flags_default]

WithRounding(t, m) ==
    /\ pc[t] = "idle"
    /\ flags' = [flags EXCEPT ![t] = Flags_with_rounding(flags[t], m)]

SetRounding(t, m) ==
    /\ pc[t] = "idle"
    /\ flags' = [flags EXCEPT ![t] = Flags_set_rounding(flags[t], m)]

WithFtz(t, b) ==
    /\ pc[t] = "idle"
    /\ flags' = [flags EXCEPT ![t] = Flags_with_ftz(flags[t], b)]

SetFtz(t, b) ==
    /\ pc[t] = "idle"
    /\ flags' = [flags EXCEPT ![t] = Flags_set_ftz(flags[t], b)]

\* A Flags operation changes nothing but the Flags value.
FlagsFrame == UNCHANGED <<mxcsr, pc, call, ret, sa, sb, sop, sr, fop>>

(***************************************************************************)
(* A scalar operation: the three instructions of host_op!.                  *)
(***************************************************************************)
\* The calls in flight, each marked when a thread other than its own takes
\* a step of host_op! (t's step overlaps them).
Overlapped(t) ==
    [u \in Threads |->
        IF u # t /\ pc[u] \in {"insn", "stmxcsr"}
        THEN [call[u] EXCEPT !.overlap = TRUE] ELSE call[u]]

\* f64::<op>(flags, operands...) is entered, flags passed by value, and
\* ldmxcsr installs its word.  `sticky` and `replaced` record the register as
\* the call found it: its sticky flags, and whether its control bits differed.
Install(t, c) ==
    /\ pc[t] = "idle"
    /\ mxcsr' = [mxcsr EXCEPT ![RegOf(t)] = ldmxcsr(@, flags[t])]
    /\ pc' = [pc EXCEPT ![t] = "insn"]
    /\ call' = [Overlapped(t) EXCEPT ![t] =
                  [op |-> c.op, args |-> c.args, flags |-> flags[t],
                   overlap |-> FALSE,
                   sticky |-> BitAnd(mxcsr[RegOf(t)], MM_EXCEPT_MASK),
                   replaced |-> ControlBits(mxcsr[RegOf(t)]) # ControlBits(flags[t])]]
    /\ ret' = [ret EXCEPT ![t] = NoRet]
    /\ UNCHANGED <<flags, sa, sb, sop, sr, fop>>

\* The instruction sets its flags sticky; an unmasked one faults (#XM).
\* `stale` records whether the call found a flag sticky that this
\* instruction did not signal.
Insn(t) ==
    /\ pc[t] = "insn"
    /\ LET x == Execute(call[t].op, call[t].args, mxcsr[RegOf(t)])
       IN  /\ mxcsr' = [mxcsr EXCEPT ![RegOf(t)] = BitOr(@, x.sig)]
           /\ call' = [Overlapped(t) EXCEPT ![t] =
                         [op |-> call[t].op, args |-> call[t].args,
                          flags |-> call[t].flags, replaced |-> call[t].replaced,
                          overlap |-> call[t].overlap,
                          stale |-> BitAndNot(call[t].sticky, x.sig) # 0,
                          xmm |-> x.xmm, sig |-> x.sig]]
           /\ pc' = [pc EXCEPT ![t] =
                       IF Unmasked(mxcsr[RegOf(t)], x.sig) THEN "fault"
                       ELSE "stmxcsr"]
    /\ UNCHANGED <<flags, ret, sa, sb, sop, sr, fop>>

\* stmxcsr, then the function returns (result, Status { inner: status }).
Stmxcsr(t) ==
    /\ pc[t] = "stmxcsr"
    /\ ret' = [ret EXCEPT ![t] =
                 [op |-> call[t].op, args |-> call[t].args,
                  flags |-> call[t].flags, replaced |-> call[t].replaced,
                  overlap |-> call[t].overlap,
                  stale |-> call[t].stale, sig |-> call[t].sig,
                  xmm |-> call[t].xmm,
                  res |-> Returned(call[t].op, call[t].xmm),
                  status |-> stmxcsr(mxcsr[RegOf(t)])]]
    /\ call' = [Overlapped(t) EXCEPT ![t] = NoCall]
    /\ pc' = [pc EXCEPT ![t] = "idle"]
    /\ UNCHANGED <<mxcsr, flags, sa, sb, sop, sr, fop>>

\* Floating-point code of the caller between two calls raises flags.
Ambient(t, e) ==
    /\ pc[t] = "idle"
    /\ BitAnd(mxcsr[RegOf(t)], e) # e
    /\ mxcsr' = [mxcsr EXCEPT ![RegOf(t)] = BitOr(@, e)]
    /\ UNCHANGED <<flags, pc, call, ret, sa, sb, sop, sr, fop>>

Next ==
    \E t \in Threads :
        \/ FlagsNew(t) /\ FlagsFrame
        \/ \E m \in Rounding : WithRounding(t, m) /\ FlagsFrame
        \/ \E m \in Rounding : SetRounding(t, m) /\ FlagsFrame
        \/ \E b \in BOOLEAN : WithFtz(t, b) /\ FlagsFrame
        \/ \E b \in BOOLEAN : SetFtz(t, b) /\ FlagsFrame
        \/ \E c \in AllCalls : Install(t, c)
        \/ Insn(t)
        \/ Stmxcsr(t)
        \/ \E e \in AmbientFlags : Ambient(t, e)

Spec == Init /\ [][Next]_vars

(***************************************************************************)
(* Two threads, each with its own register, their calls interleaved          *)
(* instruction by instruction.                                               *)
(***************************************************************************)
InitMxcsrMT == {MM_MASK_MASK, MM_MASK_MASK + MM_EXCEPT_MASK}

RoundingMT == {"Up", "Nearest"}

CallsMT ==
    {[op |-> "div", args |-> <<Fin(0, One), Three>>],
     [op |-> "add", args |-> <<Fin(0, MaxMag), Fin(0, MaxMag)>>],
     [op |-> "to_single", args |-> <<<<39322, 39321, 39321, 16313>>>>]}

InitMT ==
    /\ InitCommon
    /\ mxcsr \in [Threads -> InitMxcsrMT]
    /\ pc = [t \in Threads |-> "idle"]
    /\ sa = Status_empty
    /\ sb = Status_empty

NextMT ==
    \E t \in Threads :
        \/ \E m \in RoundingMT : WithRounding(t, m) /\ FlagsFrame
        \/ \E c \in CallsMT : Install(t, c)
        \/ Insn(t)
        \/ Stmxcsr(t)

SpecMT == InitMT /\ [][NextMT]_vars

(***************************************************************************)
(* The Flags operations alone, each recorded with the value it was applied  *)
(* to.                                                                       *)
(***************************************************************************)
Recorded(t, name, arg, Op) ==
    /\ Op
    /\ fop' = [t |-> t, op |-> name, arg |-> arg, before |-> flags[t]]
    /\ UNCHANGED <<mxcsr, pc, call, ret, sa, sb, sop, sr>>

NextFlags ==
    \E t \in Threads :
        \/ Recorded(t, "new", 0, FlagsNew(t))
        \/ \E m \in Rounding : Recorded(t, "with_rounding", m, WithRounding(t, m))
        \/ \E m \in Rounding : Recorded(t, "set_rounding", m, SetRounding(t, m))
        \/ \E b \in BOOLEAN : Recorded(t, "with_ftz", b, WithFtz(t, b))
        \/ \E b \in BOOLEAN : Recorded(t, "set_ftz", b, SetFtz(t, b))

InitFlags ==
    /\ InitCommon
    /\ mxcsr = [r \in Threads |-> MM_MASK_MASK]
    /\ pc = [t \in Threads |-> "idle"]
    /\ sa = Status_empty
    /\ sb = Status_empty

SpecFlags == InitFlags /\ [][NextFlags]_vars

(***************************************************************************)
(* The Status operations, applied to the values a caller can hold: those    *)
(* built from the five constants and empty(), and those the scalar          *)
(* operations return.                                                        *)
(***************************************************************************)
RECURSIVE OrAll(_)
OrAll(S) ==
    IF S = {} THEN Status_empty
    ELSE LET c == CHOOSE c \in S : TRUE
         IN  Status_or(c, OrAll(S \ {c}))

BuiltStatuses == {OrAll(S) : S \in SUBSET StatusConstants}

BuiltFlags ==
    {Flags_with_ftz(Flags_with_rounding(Flags_new, m), b) :
        m \in Rounding, b \in BOOLEAN}

ReturnedStatuses ==
    {HostOp(MM_MASK_MASK, f, c.op, c.args).status : f \in BuiltFlags, c \in AllCalls}

StatusInputs == BuiltStatuses \cup ReturnedStatuses

InitStatus ==
    /\ InitCommon
    /\ mxcsr = [r \in Threads |-> MM_MASK_MASK]
    /\ pc = [t \in Threads |-> "off"]
    /\ sa \in StatusInputs
    /\ sb \in StatusInputs

ApplyOr ==
    /\ sop' = "or"
    /\ sr' = Status_or(sa, sb)
    /\ UNCHANGED <<mxcsr, flags, pc, call, ret, sa, sb, fop>>

ApplyAnd ==
    /\ sop' = "and"
    /\ sr' = Status_and(sa, sb)
    /\ UNCHANGED <<mxcsr, flags, pc, call, ret, sa, sb, fop>>

ApplyHas ==
    /\ sop' = "has"
    /\ sr' = Status_has(sa, sb)
    /\ UNCHANGED <<mxcsr, flags, pc, call, ret, sa, sb, fop>>

NextStatus == ApplyOr \/ ApplyAnd \/ ApplyHas

SpecStatus == InitStatus /\ [][NextStatus]_vars

(***************************************************************************)
(* Properties.                                                              *)
(***************************************************************************)
Returned1(t) == pc[t] = "idle" /\ ret[t].op # "none"

FiveFlags(s) ==
    {c \in StatusConstants : Status_has(s, c)}

\* C1: the Status a scalar operation returns shows an exception flag exactly
\* when the call's own instruction signaled it, whatever was sticky in the
\* register when the call began.
C1_StatusIsThisInstruction ==
    \A t \in Threads :
        ret[t].op # "none" =>
            /\ BitAnd(ret[t].status, MM_EXCEPT_MASK) = ret[t].sig
            /\ Status_overflow(ret[t].status)
                  <=> BitAnd(ret[t].sig, MM_EXCEPT_OVERFLOW) # 0
            /\ Status_underflow(ret[t].status)
                  <=> BitAnd(ret[t].sig, MM_EXCEPT_UNDERFLOW) # 0
            /\ Status_inexact(ret[t].status)
                  <=> BitAnd(ret[t].sig, MM_EXCEPT_INEXACT) # 0
            /\ Status_denorm(ret[t].status)
                  <=> BitAnd(ret[t].sig, MM_EXCEPT_DENORM) # 0
            /\ Status_div_zero(ret[t].status)
                  <=> BitAnd(ret[t].sig, MM_EXCEPT_DIV_ZERO) # 0

\* A call that found flags sticky which its instruction did not signal has
\* returned, its own instruction having signaled something else.
C1_Witness ==
    /\ Returned1(1)
    /\ ret[1].stale
    /\ ret[1].sig # 0
    /\ Flags_rounding(ret[1].flags) # "Nearest"

\* C2: once a call has returned, the register's control bits (rounding mode,
\* flush-to-zero, exception masks) are those of that call's Flags, whatever
\* they were before: nothing is restored.
C2_LastWriterWins ==
    \A t \in Threads :
        Returned1(t) =>
            /\ ControlBits(mxcsr[RegOf(t)]) = ControlBits(ret[t].flags)
            /\ MxcsrRC(mxcsr[RegOf(t)]) = Flags_rounding(ret[t].flags)
            /\ MxcsrFZ(mxcsr[RegOf(t)]) = Flags_ftz(ret[t].flags)
            /\ BitAnd(mxcsr[RegOf(t)], MM_MASK_MASK) = BitAnd(ret[t].flags, MM_MASK_MASK)

\* A call has returned whose Flags replaced different control bits.
C2_Witness ==
    /\ Returned1(1)
    /\ ret[1].replaced
    /\ Flags_ftz(ret[1].flags)
    /\ Flags_rounding(ret[1].flags) = "Down"

\* C3 (as claimed): s.has(o) is true exactly when every one of the five
\* exception flags set in o is set in s, for all Status values s and o, those
\* returned by the scalar operations included.
C3_HasIsFlagSubset ==
    sop = "has" => (sr <=> FiveFlags(sb) \subseteq FiveFlags(sa))

\* C4 (as claimed): has_exceptions() of a Status is true exactly when one of
\* the five predicates overflow(), underflow(), inexact(), denorm(),
\* div_zero() is, for the values the scalar operations return as well.
C4_HasExceptionsIsAnyOfFive ==
    /\ ~Status_has_exceptions(Status_empty)
    /\ \A t \in Threads :
          ret[t].op # "none" =>
              (Status_has_exceptions(ret[t].status)
                  <=> \/ Status_overflow(ret[t].status)
                      \/ Status_underflow(ret[t].status)
                      \/ Status_inexact(ret[t].status)
                      \/ Status_denorm(ret[t].status)
                      \/ Status_div_zero(ret[t].status))

\* C5: set_rounding(m) and with_rounding(m) make rounding() return m, give
\* the same value, and change no bit outside the rounding field (ftz() and
\* the exception masks included).
C5_RoundingRoundTrip ==
    fop.op \in {"set_rounding", "with_rounding"} =>
        LET f == flags[fop.t]
        IN  /\ Flags_rounding(f) = fop.arg
            /\ f = Flags_set_rounding(fop.before, fop.arg)
            /\ f = Flags_with_rounding(fop.before, fop.arg)
            /\ Flags_ftz(f) = Flags_ftz(fop.before)
            /\ BitAndNot(f, MM_ROUND_MASK) = BitAndNot(fop.before, MM_ROUND_MASK)
            /\ BitAnd(f, MM_MASK_MASK) = BitAnd(fop.before, MM_MASK_MASK)

\* The rounding mode of a Flags value with flush-to-zero set and another
\* directed mode has been replaced.
C5_Witness ==
    /\ fop.op = "set_rounding"
    /\ fop.arg = "Down"
    /\ Flags_rounding(fop.before) = "Zero"
    /\ Flags_ftz(fop.before)

\* C6: set_ftz(b) and with_ftz(b) make ftz() return b and leave rounding()
\* and the exception-mask bits as they were.
C6_FtzRoundTrip ==
    fop.op \in {"set_ftz", "with_ftz"} =>
        LET f == flags[fop.t]
        IN  /\ Flags_ftz(f) = fop.arg
            /\ Flags_rounding(f) = Flags_rounding(fop.before)
            /\ BitAnd(f, MM_MASK_MASK) = BitAnd(fop.before, MM_MASK_MASK)
            /\ BitAndNot(f, MM_FLUSH_ZERO_MASK)
                  = BitAndNot(fop.before, MM_FLUSH_ZERO_MASK)

\* Flush-to-zero has been cleared again on a Flags value with a directed
\* rounding mode.
C6_Witness ==
    /\ fop.op = "with_ftz"
    /\ fop.arg = FALSE
    /\ Flags_ftz(fop.before)
    /\ Flags_rounding(fop.before) = "Up"

\* C7: a.or(b) has a and has b; a.and(b) has a only when b has a; or is the
\* union and and the intersection of the two flag sets.
C7_OrAndLaws ==
    /\ sop = "or" =>
          /\ Status_has(sr, sa)
          /\ Status_has(sr, sb)
          /\ FiveFlags(sr) = FiveFlags(sa) \cup FiveFlags(sb)
    /\ sop = "and" =>
          /\ Status_has(sr, sa) => Status_has(sb, sa)
          /\ FiveFlags(sr) = FiveFlags(sa) \cap FiveFlags(sb)

\* or has been applied to two Status values neither of which has the other.
C7_Witness ==
    /\ sop = "or"
    /\ ~Status_has(sa, sb)
    /\ ~Status_has(sb, sa)
    /\ sr # sa
    /\ sr # sb

\* C8: to_single returns exactly the 32 bits cvtsd2ss wrote into the low
\* half of its register, whatever the upper half (still the upper half of
\* the operand) holds.
C8_ToSingleIsLowHalf ==
    \A t \in Threads :
        ret[t].op = "to_single" =>
            LET x == ret[t].args[1]
                r == cvtsd2ss(x, Flags_rounding(ret[t].flags), Flags_ftz(ret[t].flags))
            IN  /\ ret[t].res = r.lo32
                /\ ret[t].xmm[3] = x[3]
                /\ ret[t].xmm[4] = x[4]

\* to_single has returned a nonzero single whose register's upper half was
\* not zero.
C8_Witness ==
    /\ ret[1].op = "to_single"
    /\ ret[1].xmm[4] # 0
    /\ ret[1].res # <<0, 0>>
    /\ ret[1].res # <<ret[1].xmm[3], ret[1].xmm[4]>>

\* C9: however the install, execute and read-status steps of different
\* threads' calls interleave, each thread's register holds at every step,
\* and each call returns, what the call would produce run alone (from any
\* register contents); a thread has one call in flight at most.
C9_ThreadsIndependent ==
    \A t \in Threads :
        /\ pc[t] # "fault"
        /\ pc[t] = "idle" <=> call[t] = NoCall
        /\ pc[t] = "insn" => mxcsr[RegOf(t)] = call[t].flags
        /\ pc[t] = "stmxcsr" =>
              \A w \in InitMxcsr :
                  LET h == HostOp(w, call[t].flags, call[t].op, call[t].args)
                  IN  /\ mxcsr[RegOf(t)] = h.reg
                      /\ Returned(call[t].op, call[t].xmm) = h.res
        /\ Returned1(t) =>
              \A w \in InitMxcsr :
                  LET h == HostOp(w, ret[t].flags, ret[t].op, ret[t].args)
                  IN  /\ ret[t].res = h.res
                      /\ ret[t].status = h.status
                      /\ mxcsr[RegOf(t)] = h.reg

\* A call has returned during which the other thread, under other Flags,
\* took steps of a call of its own.
C9_Witness ==
    /\ Returned1(1)
    /\ ret[1].overlap
    /\ pc[2] = "stmxcsr"
    /\ call[2].overlap
    /\ call[2].flags # ret[1].flags

\* C10: every Flags value built from Flags::new() has all six exception
\* masks set and no other bit outside the rounding and flush-to-zero fields;
\* Flags::new() is Nearest without flush-to-zero; so a register just loaded
\* from one has every trap masked and no flag set, and no instruction faults.
C10_FlagsMaskedAndClean ==
    /\ Flags_rounding(Flags_new) = "Nearest"
    /\ ~Flags_ftz(Flags_new)
    /\ Flags_default = Flags_new
    /\ \A t \in Threads :
          /\ BitAnd(flags[t], MM_MASK_MASK) = MM_MASK_MASK
          /\ BitAnd(flags[t], MM_EXCEPT_MASK) = 0
          /\ BitAndNot(flags[t], MM_MASK_MASK + MM_ROUND_MASK + MM_FLUSH_ZERO_MASK) = 0
          /\ pc[t] # "fault"
          /\ pc[t] = "insn" =>
                /\ BitAnd(mxcsr[RegOf(t)], MM_EXCEPT_MASK) = 0
                /\ BitAnd(mxcsr[RegOf(t)], MM_MASK_MASK) = MM_MASK_MASK

\* Flags with a directed rounding mode and flush-to-zero have just been
\* installed over a register that had flags sticky and traps unmasked.
C10_Witness ==
    /\ pc[1] = "insn"
    /\ call[1].sticky # 0
    /\ call[1].replaced
    /\ Flags_rounding(flags[1]) = "Zero"
    /\ Flags_ftz(flags[1])

====
